---- MODULE Spec2Model ----
(***************************************************************************)
(* Reconciliation core of the Grafana Agent charm                          *)
(* (src/src/grafana_agent.py, src/src/machine_charm.py).                   *)
(*                                                                         *)
(* The state is what survives between two hook dispatches: the persisted   *)
(* agent config file, the alert-rule destination directory, the unit       *)
(* status, and the inputs the collaborators report (readiness, relation    *)
(* data, config options).  Every hook dispatch is one action: a fresh      *)
(* charm object is constructed and the observed handler runs to            *)
(* completion.  The collaborator calls a handler makes are logged in       *)
(* last.calls, the way a test double would count them.                     *)
(***************************************************************************)
EXTENDS Integers, Sequences, FiniteSets, TLC

(***************************************************************************)
(* Bounds of the model.                                                    *)
(***************************************************************************)
MaxEndpoints == 1
MaxGroups == 2
MaxAttempts == 3
MaxSynthEndpoints == 2
MaxDashboards == 2

(***************************************************************************)
(* Module constants of grafana_agent.py.                                   *)
(***************************************************************************)
CONFIG_PATH == "/etc/grafana-agent.yaml"
_promtail_positions == "/run/promtail-positions.yaml"
_http_listen_port == 3500
_grpc_listen_port == 3600

(***************************************************************************)
(* Python values.  None is a document of its own; the empty dict is the    *)
(* function with the empty domain.                                         *)
(***************************************************************************)
None == [none |-> TRUE]
EmptyDict == <<>>

RECURSIVE SeqsUpTo(_, _)
SeqsUpTo(S, n) ==
    IF n = 0 THEN {<<>>}
    ELSE LET shorter == SeqsUpTo(S, n - 1)
         IN shorter \cup {Append(s, x) : s \in {t \in shorter : Len(t) = n - 1}, x \in S}

(***************************************************************************)
(* Unit statuses (ops.model).                                              *)
(***************************************************************************)
UnknownStatus == [name |-> "unknown", message |-> ""]
ActiveStatus == [name |-> "active", message |-> ""]
WaitingStatus(msg) == [name |-> "waiting", message |-> msg]
BlockedStatus(msg) == [name |-> "blocked", message |-> msg]
MaintenanceStatus(msg) == [name |-> "maintenance", message |-> msg]

(***************************************************************************)
(* Exceptions.  str(e) of the two exception types _update_config catches.  *)
(***************************************************************************)
NoExc == "none"
ReloadErrorMessage == "could not reload configuration"
APIErrorMessage == "cannot reach pebble"

(***************************************************************************)
(* Juju topology of the unit, as the model object reports it.              *)
(***************************************************************************)
model_name == "lma"
model_uuid == "0f1e2d3c"
app_name == "grafana-agent"
unit_name == "grafana-agent/0"
meta_name == "grafana-agent-k8s"

RECURSIVE Join(_, _)
Join(sep, strs) ==
    IF Len(strs) = 0 THEN ""
    ELSE IF Len(strs) = 1 THEN strs[1]
    ELSE strs[1] \o sep \o Join(sep, Tail(strs))

_instance_topology ==
    << <<"juju_model", model_name>>,
       <<"juju_model_uuid", model_uuid>>,
       <<"juju_application", app_name>>,
       <<"juju_unit", unit_name>> >>

_instance_name == Join("_", [i \in 1..Len(_instance_topology) |-> _instance_topology[i][2]])

(***************************************************************************)
(* The host-installed variant (machine_charm.py) overrides _instance_name: *)
(* it joins the values of the topology of the principal unit, the unit the *)
(* agent is subordinate to over juju-info, and that topology is the empty  *)
(* dict when there is no such unit.  It overrides neither                   *)
(* _instance_topology nor _integrations_config.                            *)
(***************************************************************************)
Unit(app, name) == [app |-> app, name |-> name]
PrincipalUnits == {None, Unit("ubuntu", "ubuntu/0")}

_principal_topology(unit) ==
    IF unit = None THEN <<>>
    ELSE << <<"juju_model", model_name>>,
            <<"juju_model_uuid", model_uuid>>,
            <<"juju_application", unit.app>>,
            <<"juju_unit", unit.name>> >>

machine_instance_name(unit) ==
    Join("_", [i \in 1..Len(_principal_topology(unit)) |-> _principal_topology(unit)[i][2]])

\* self._instance_name of a charm of the given variant.
InstanceName(variant, principal_unit) ==
    IF variant = "machine" THEN machine_instance_name(principal_unit) ELSE _instance_name

\* The hooks a variant does not override raise NotImplementedError; the
\* machine charm overrides none of those that extend the config, and
\* _additional_integrations is the first one _generate_config reads.
HookRaises(variant) == IF variant = "machine" THEN "NotImplementedError" ELSE NoExc

(***************************************************************************)
(* Config Synthesizer.  Endpoints arrive from the relations as dicts with  *)
(* a url; _enrich_endpoints adds the tls_config to each of them.           *)
(***************************************************************************)
Endpoint(url) == [url |-> url]

\* An enrichment that verifies the certificate whatever the option says.
_enrich_endpoints_verify(endpoints, tls) ==
    [i \in 1..Len(endpoints) |->
        [url |-> endpoints[i].url,
         tls_config |-> [insecure_skip_verify |-> FALSE]]]

_enrich_endpoints(endpoints, tls) ==
    [i \in 1..Len(endpoints) |->
        [url |-> endpoints[i].url,
         tls_config |-> [insecure_skip_verify |-> tls]]]

_integrations_conf(instance_name, prometheus_endpoints, tls) ==
    LET job_name == "juju_" \o model_name \o "_" \o model_uuid \o "_" \o app_name
                    \o "_self-monitoring"
        conf ==
          [agent |->
             [enabled |-> TRUE,
              relabel_configs |->
                << [target_label |-> "job", regex |-> "(.*)", replacement |-> job_name],
                   [target_label |-> "instance", regex |-> "(.*)",
                    replacement |-> instance_name],
                   [source_labels |-> <<"__address__">>, target_label |-> "juju_charm",
                    replacement |-> meta_name],
                   [source_labels |-> <<"__address__">>, target_label |-> "juju_model",
                    replacement |-> model_name],
                   [source_labels |-> <<"__address__">>, target_label |-> "juju_model_uuid",
                    replacement |-> model_uuid],
                   [source_labels |-> <<"__address__">>,
                    target_label |-> "juju_application", replacement |-> app_name],
                   [source_labels |-> <<"__address__">>, target_label |-> "juju_unit",
                    replacement |-> unit_name] >>],
           prometheus_remote_write |-> _enrich_endpoints(prometheus_endpoints, tls)]
    IN  conf

\* A merge in which the built-in keys win.
_integrations_config_builtin_wins(prometheus_endpoints, tls, additional_integrations) ==
    _integrations_conf(_instance_name, prometheus_endpoints, tls) @@ additional_integrations

\* conf ends with **self._additional_integrations: on a key both have, the
\* later entry of the dict display stays.
_integrations_config(prometheus_endpoints, tls, additional_integrations) ==
    additional_integrations @@ _integrations_conf(_instance_name, prometheus_endpoints, tls)

\* A logs section that always has its list of configs.
_loki_config_empty_list(loki_endpoints, tls, additional_log_configs) ==
    LET push ==
          IF Len(loki_endpoints) > 0
          THEN << [name |-> "push_api_server",
                   clients |-> _enrich_endpoints(loki_endpoints, tls),
                   positions |-> [filename |-> _promtail_positions],
                   scrape_configs |->
                     << [job_name |-> "loki",
                         loki_push_api |->
                           [server |-> [http_listen_port |-> _http_listen_port,
                                        grpc_listen_port |-> _grpc_listen_port]]] >>] >>
          ELSE <<>>
        configs == push \o additional_log_configs
    IN  [configs |-> configs]

_loki_config(loki_endpoints, tls, additional_log_configs) ==
    LET push ==
          IF Len(loki_endpoints) > 0
          THEN << [name |-> "push_api_server",
                   clients |-> _enrich_endpoints(loki_endpoints, tls),
                   positions |-> [filename |-> _promtail_positions],
                   scrape_configs |->
                     << [job_name |-> "loki",
                         loki_push_api |->
                           [server |-> [http_listen_port |-> _http_listen_port,
                                        grpc_listen_port |-> _grpc_listen_port]]] >>] >>
          ELSE <<>>
        configs == push \o additional_log_configs
    IN  IF Len(configs) > 0 THEN [configs |-> configs] ELSE EmptyDict

_generate_config(prometheus_endpoints, loki_endpoints, tls, jobs, additional_integrations, additional_log_configs) ==
    [server |-> [log_level |-> "info"],
     integrations |-> _integrations_config(prometheus_endpoints, tls,
                                           additional_integrations),
     metrics |->
       [wal_directory |-> "/tmp/agent/data",
        configs |-> << [name |-> "agent_scraper",
                        scrape_configs |-> jobs,
                        remote_write |-> _enrich_endpoints(prometheus_endpoints, tls)] >>],
     logs |-> _loki_config(loki_endpoints, tls, additional_log_configs)]

(***************************************************************************)
(* YAML.  A text is what a file holds: the serialization of a document in  *)
(* some layout, the empty text, or text that is no YAML at all.            *)
(* yaml.dump writes the default block layout; yaml.safe_load gives the     *)
(* document of a well-formed text whatever its layout, None for the empty  *)
(* text, and raises YAMLError for the rest.                                *)
(***************************************************************************)
EmptyText == [kind |-> "empty", doc |-> None, layout |-> ""]
GarbageText == [kind |-> "garbage", doc |-> None, layout |-> ""]

yaml_dump(doc) == [kind |-> "yaml", doc |-> doc, layout |-> "block"]

yaml_safe_load(text) ==
    CASE text.kind = "yaml" -> [exc |-> NoExc, val |-> text.doc]
      [] text.kind = "empty" -> [exc |-> NoExc, val |-> None]
      [] OTHER -> [exc |-> "YAMLError", val |-> None]

(***************************************************************************)
(* The persisted config file and the read_file collaborator: it raises     *)
(* FileNotFoundError (PathError under pebble) exactly when the file is     *)
(* not there.                                                              *)
(***************************************************************************)
NoFile == [exists |-> FALSE, text |-> EmptyText]
File(text) == [exists |-> TRUE, text |-> text]

read_file(file) ==
    IF file.exists THEN [exc |-> NoExc, val |-> file.text]
    ELSE [exc |-> "FileNotFoundError", val |-> EmptyText]

(***************************************************************************)
(* Directories of rule files.  A directory is there or not; its files are  *)
(* pairs <<name, text>>.  The source template ships with the charm and is  *)
(* never written.                                                          *)
(***************************************************************************)
NoDir == [exists |-> FALSE, files |-> {}]
Dir(files) == [exists |-> TRUE, files |-> files]

TemplateFiles == {<<"agent_down.rule", yaml_dump([groups |-> "agent_down"])>>}
MetricsRulesSrc == Dir(TemplateFiles)

RuleContent(id) == [groups |-> "alerts of " \o id]
RuleFileName(id) == "juju_" \o id \o ".rules"

GeneratedFiles(rules) ==
    {<<RuleFileName(rules[i]), yaml_dump(RuleContent(rules[i]))>> : i \in 1..Len(rules)}

WriteText(files, name, text) == {f \in files : f[1] # name} \cup {<<name, text>>}

(***************************************************************************)
(* State.                                                                  *)
(***************************************************************************)
VARIABLES
    is_ready,                  \* what the is_ready collaborator answers
    tls_insecure_skip_verify,  \* the charm's config option
    remote_write_endpoints,    \* urls of self._remote_write.endpoints
    loki_endpoints,            \* urls of self._loki_consumer.loki_endpoints (none related)
    scrape_jobs,               \* what metrics_jobs() returns
    alert_rules,               \* identifiers of metrics_rules(), in dict order
    config_file,               \* the file at CONFIG_PATH
    metrics_rules_dest,        \* the directory metrics_rules_paths.dest
    unit_status,               \* self.unit.status
    last,                      \* what the last dispatched handler did
    prev,                      \* the pass before it, when nothing changed in between
    reload,                    \* one run of _reload_config against a scripted server
    synth,                     \* one run of _generate_config on given inputs
    dash                       \* one run of _update_grafana_dashboards

vars == <<is_ready, tls_insecure_skip_verify, remote_write_endpoints, loki_endpoints,
          scrape_jobs, alert_rules, config_file, metrics_rules_dest, unit_status,
          last, prev, reload, synth, dash>>

inputs == <<is_ready, tls_insecure_skip_verify, remote_write_endpoints, loki_endpoints,
            scrape_jobs, alert_rules>>

(***************************************************************************)
(* The hooks of the deployment variant that extend the config.             *)
(***************************************************************************)
_additional_integrations == EmptyDict
_additional_log_configs == <<>>

(***************************************************************************)
(* The values the inputs range over.                                       *)
(***************************************************************************)
Min(a, b) == IF a < b THEN a ELSE b

Prefixes(pool, n) == {SubSeq(pool, 1, k) : k \in 0..Min(n, Len(pool))}

RECURSIVE SubSeqs(_)
SubSeqs(pool) ==
    IF Len(pool) = 0 THEN {<<>>}
    ELSE LET rest == SubSeqs(Tail(pool))
         IN rest \cup {<<Head(pool)>> \o r : r \in rest}

RemoteWriteUrls == <<"http://prom-0/api/v1/write", "http://prom-1/api/v1/write",
                     "http://prom-2/api/v1/write">>
LokiUrls == <<"http://loki-0/loki/api/v1/push", "http://loki-1/loki/api/v1/push",
              "http://loki-2/loki/api/v1/push">>
RuleIds == <<"A", "B", "C", "D">>

RemoteWriteLists == Prefixes(RemoteWriteUrls, MaxEndpoints)
LokiLists == Prefixes(LokiUrls, MaxEndpoints)
ScrapeJobLists == {<<>>, <<[job_name |-> "node", static_configs |-> <<"host:9100">>]>>}
AlertRuleSets == SubSeqs(SubSeq(RuleIds, 1, Min(MaxGroups, Len(RuleIds))))

Endpoints(urls) == [i \in 1..Len(urls) |-> Endpoint(urls[i])]

(***************************************************************************)
(* What a handler has done so far: the world it changes (m.file, m.dest,   *)
(* m.status), the collaborator calls it made (m.calls), the exception      *)
(* that left it (m.raised), and what its reconciliation pass saw and did.  *)
(***************************************************************************)
Call(m, name) == [m EXCEPT !.calls = Append(@, name)]
Raise(m, exc) == [m EXCEPT !.raised = exc]
Called(calls, name) == \E i \in 1..Len(calls) : calls[i] = name
Count(calls, name) == Cardinality({i \in 1..Len(calls) : calls[i] = name})

Begin(handler, file, dest, status) ==
    [handler |-> handler, file |-> file, dest |-> dest, status |-> status,
     calls |-> <<>>, raised |-> NoExc,
     read_exc |-> NoExc, old_config |-> None, unchanged |-> FALSE,
     written |-> EmptyText, written_to |-> "", write_ok |-> FALSE,
     restart_exc |-> NoExc,
     pass_status |-> status, pass_raised |-> NoExc, pass_calls |-> 0,
     sync_ran |-> FALSE, stale_before |-> FALSE,
     persisted |-> "", layout |-> "", returncode |-> 0,
     dest_missing |-> FALSE, dest_at_sync |-> TRUE]

\* What is kept of a handler once it has ended.
Summary(m) ==
    [handler |-> m.handler, calls |-> m.calls, raised |-> m.raised,
     read_exc |-> m.read_exc, old_is_none |-> (m.old_config = None),
     unchanged |-> m.unchanged,
     written_to |-> m.written_to, write_ok |-> m.write_ok,
     restart_exc |-> m.restart_exc,
     pass_status |-> m.pass_status, pass_raised |-> m.pass_raised,
     pass_calls |-> m.pass_calls, sync_ran |-> m.sync_ran,
     stale_before |-> m.stale_before,
     persisted |-> m.persisted, layout |-> m.layout, returncode |-> m.returncode,
     dest_missing |-> m.dest_missing, dest_at_sync |-> m.dest_at_sync]

NoHandler == Summary(Begin("none", NoFile, NoDir, UnknownStatus))

(***************************************************************************)
(* __init__: a destination that is no directory is copied from the source  *)
(* template.                                                               *)
(***************************************************************************)
\* A constructor that leaves a missing destination missing.
__init___no_copy(m) == m

__init__(m) ==
    IF ~m.dest.exists THEN [m EXCEPT !.dest = MetricsRulesSrc] ELSE m

(***************************************************************************)
(* write_file and restart, with the outcome o the collaborator has in this *)
(* dispatch.  A write that fails leaves the file as it was or truncated.   *)
(***************************************************************************)
WriteOutcomes == {"ok", "OSError", "OSError truncated"}
RestartOutcomes == {"ok", "GrafanaAgentReloadError", "APIError"}

write_file(m, path, text, o) ==
    LET m1 == [Call(m, "write_file") EXCEPT !.written = text, !.written_to = path]
    IN  CASE o = "ok" -> [m1 EXCEPT !.file = File(text), !.write_ok = TRUE]
          [] o = "OSError truncated" -> Raise([m1 EXCEPT !.file = File(EmptyText)], "OSError")
          [] OTHER -> Raise(m1, "OSError")

restart(m, o) ==
    IF o = "ok" THEN Call(m, "restart")
    ELSE Raise([Call(m, "restart") EXCEPT !.restart_exc = o], o)

ExcMessage(exc) ==
    CASE exc = "GrafanaAgentReloadError" -> ReloadErrorMessage
      [] exc = "APIError" -> APIErrorMessage
      [] OTHER -> exc

(***************************************************************************)
(* _update_config: the reconciliation pass.                                *)
(***************************************************************************)
\* An apply step that maps the transport error to Blocked as well.
ApplyConfig_all_blocked(m, config, o) ==
    LET m1 == write_file(m, CONFIG_PATH, yaml_dump(config), o.write_file)
        m2 == IF m1.raised = NoExc THEN restart(m1, o.restart) ELSE m1
    IN  CASE m2.raised = NoExc -> [m2 EXCEPT !.status = ActiveStatus]
          [] m2.raised \in {"GrafanaAgentReloadError", "APIError"} ->
                [m2 EXCEPT !.raised = NoExc, !.status = BlockedStatus(ExcMessage(m2.raised))]
          [] OTHER -> m2

\* An apply step that puts the old file back when the restart fails.
ApplyConfig_rollback(m, config, o) ==
    LET m1 == write_file(m, CONFIG_PATH, yaml_dump(config), o.write_file)
        m2 == IF m1.raised = NoExc THEN restart(m1, o.restart) ELSE m1
    IN  CASE m2.raised = NoExc -> [m2 EXCEPT !.status = ActiveStatus]
          [] m2.raised = "GrafanaAgentReloadError" ->
                [m2 EXCEPT !.raised = NoExc, !.file = m.file,
                           !.status = BlockedStatus(ExcMessage(m2.raised))]
          [] m2.raised = "APIError" ->
                [m2 EXCEPT !.raised = NoExc, !.file = m.file,
                           !.status = WaitingStatus(ExcMessage(m2.raised))]
          [] OTHER -> m2

\* An apply step that restarts the agent before it writes the file.
ApplyConfig_restart_first(m, config, o) ==
    LET m1 == restart(m, o.restart)
        m2 == IF m1.raised = NoExc
              THEN write_file(m1, CONFIG_PATH, yaml_dump(config), o.write_file)
              ELSE m1
    IN  CASE m2.raised = NoExc -> [m2 EXCEPT !.status = ActiveStatus]
          [] m2.raised = "GrafanaAgentReloadError" ->
                [m2 EXCEPT !.raised = NoExc, !.status = BlockedStatus(ExcMessage(m2.raised))]
          [] m2.raised = "APIError" ->
                [m2 EXCEPT !.raised = NoExc, !.status = WaitingStatus(ExcMessage(m2.raised))]
          [] OTHER -> m2

ApplyConfig(m, config, o) ==
    LET m1 == write_file(m, CONFIG_PATH, yaml_dump(config), o.write_file)
        m2 == IF m1.raised = NoExc THEN restart(m1, o.restart) ELSE m1
    IN  CASE m2.raised = NoExc -> [m2 EXCEPT !.status = ActiveStatus]
          [] m2.raised = "GrafanaAgentReloadError" ->
                [m2 EXCEPT !.raised = NoExc, !.status = BlockedStatus(ExcMessage(m2.raised))]
          [] m2.raised = "APIError" ->
                [m2 EXCEPT !.raised = NoExc, !.status = WaitingStatus(ExcMessage(m2.raised))]
          [] OTHER -> m2

\* A read without the except clause for the missing file.
ReadOldConfig_uncaught(m) ==
    LET m1 == Call(m, "read_file")
        got == read_file(m1.file)
        doc == IF got.exc = NoExc THEN yaml_safe_load(got.val) ELSE got
    IN  IF doc.exc = NoExc THEN [m1 EXCEPT !.old_config = doc.val]
        ELSE Raise([m1 EXCEPT !.read_exc = doc.exc], doc.exc)

ReadOldConfig(m) ==
    LET m1 == Call(m, "read_file")
        got == read_file(m1.file)
        doc == IF got.exc = NoExc THEN yaml_safe_load(got.val) ELSE got
    IN  CASE doc.exc = NoExc -> [m1 EXCEPT !.old_config = doc.val]
          [] doc.exc \in {"FileNotFoundError", "PathError"} ->
                [m1 EXCEPT !.read_exc = doc.exc, !.old_config = None]
          [] OTHER -> Raise([m1 EXCEPT !.read_exc = doc.exc], doc.exc)

\* A pass that does not return when the agent is not ready.
_update_config_ungated(m, ready, config, o) ==
    LET m0 == Call(m, "is_ready")
        m1 == ReadOldConfig(Call(m0, "_generate_config"))
    IN  IF m1.raised # NoExc THEN m1
        ELSE IF config = m1.old_config
        THEN [m1 EXCEPT !.status = ActiveStatus, !.unchanged = TRUE]
        ELSE ApplyConfig(m1, config, o)

\* A pass that takes a missing or empty persisted config for nothing to do.
_update_config_new_install(m, ready, config, o) ==
    LET m0 == Call(m, "is_ready")
    IN  IF ~ready
        THEN [m0 EXCEPT !.status = WaitingStatus("waiting for agent to start")]
        ELSE LET m1 == ReadOldConfig(Call(m0, "_generate_config"))
             IN  IF m1.raised # NoExc THEN m1
                 ELSE IF m1.old_config = None \/ config = m1.old_config
                 THEN [m1 EXCEPT !.status = ActiveStatus, !.unchanged = TRUE]
                 ELSE ApplyConfig(m1, config, o)

\* A pass that compares the text it would write with the text of the file.
_update_config_compare_text(m, ready, config, o) ==
    LET m0 == Call(m, "is_ready")
    IN  IF ~ready
        THEN [m0 EXCEPT !.status = WaitingStatus("waiting for agent to start")]
        ELSE LET m1 == ReadOldConfig(Call(m0, "_generate_config"))
             IN  IF m1.raised # NoExc THEN m1
                 ELSE IF m1.file.exists /\ yaml_dump(config) = m1.file.text
                 THEN [m1 EXCEPT !.status = ActiveStatus, !.unchanged = TRUE]
                 ELSE ApplyConfig(m1, config, o)

_update_config(m, ready, config, o) ==
    LET m0 == Call(m, "is_ready")
    IN  IF ~ready
        THEN [m0 EXCEPT !.status = WaitingStatus("waiting for agent to start")]
        ELSE LET m1 == ReadOldConfig(Call(m0, "_generate_config"))
             IN  IF m1.raised # NoExc THEN m1
                 ELSE IF config = m1.old_config
                 THEN [m1 EXCEPT !.status = ActiveStatus, !.unchanged = TRUE]
                 ELSE ApplyConfig(m1, config, o)

(***************************************************************************)
(* _update_status.  The three assignments follow one another; none of     *)
(* them returns.                                                           *)
(***************************************************************************)
_update_status(m, ready, metrics_endpoint_relations, remote_write_relations) ==
    LET m1 == IF metrics_endpoint_relations > 0 /\ remote_write_relations = 0
              THEN [m EXCEPT !.status = WaitingStatus("no related Prometheus remote-write")]
              ELSE m
        m2 == Call(m1, "is_ready")
        m3 == IF ~ready
              THEN [m2 EXCEPT !.status = WaitingStatus("waiting for the agent to start")]
              ELSE m2
    IN  [m3 EXCEPT !.status = ActiveStatus]

(***************************************************************************)
(* update_alerts_rules, with the fault o (if any) that the file system or  *)
(* the reload trigger has in this dispatch: o.at names the call that       *)
(* fails, o.k the rule file whose write fails.                             *)
(***************************************************************************)
NoFault == [at |-> "none", k |-> 0]
SyncFaults(n) ==
    {NoFault} \cup {[at |-> a, k |-> 0] : a \in {"rmtree", "copytree", "copytree partial",
                                                 "reload_func"}}
              \cup {[at |-> "write_text", k |-> i] : i \in 1..n}

rmtree(m, o) ==
    LET m1 == Call(m, "rmtree")
    IN  IF ~m1.dest.exists THEN Raise(m1, "FileNotFoundError")
        ELSE IF o.at = "rmtree" THEN Raise(m1, "OSError")
        ELSE [m1 EXCEPT !.dest = NoDir]

copytree(m, src, o) ==
    LET m1 == Call(m, "copytree")
    IN  CASE m1.dest.exists -> Raise(m1, "FileExistsError")
          [] o.at = "copytree" -> Raise(m1, "shutil.Error")
          [] o.at = "copytree partial" -> Raise([m1 EXCEPT !.dest = Dir({})], "shutil.Error")
          [] OTHER -> [m1 EXCEPT !.dest = Dir(src.files)]

RECURSIVE WriteRules(_, _, _, _)
WriteRules(m, rules, i, o) ==
    IF i > Len(rules) \/ m.raised # NoExc THEN m
    ELSE LET m1 == Call(m, "write_text")
             name == RuleFileName(rules[i])
             text == yaml_dump(RuleContent(rules[i]))
         IN  IF o.at = "write_text" /\ o.k = i THEN Raise(m1, "OSError")
             ELSE WriteRules([m1 EXCEPT !.dest.files = WriteText(@, name, text)],
                             rules, i + 1, o)

reload_func(m, o) ==
    IF o.at = "reload_func" THEN Raise(Call(m, "reload_func"), "ModelError")
    ELSE Call(m, "reload_func")

\* A sync that copies the template over the destination it finds.
update_alerts_rules_merge(m, rules, src, o) ==
    LET m0 == [Call(m, "alerts_func") EXCEPT
                 !.sync_ran = TRUE, !.dest_at_sync = m.dest.exists,
                 !.stale_before = (m.dest.files \ (src.files \cup GeneratedFiles(rules)) # {})]
        m1 == [Call(Call(m0, "rmtree"), "copytree") EXCEPT
                 !.dest = Dir(m.dest.files \cup src.files)]
        m3 == WriteRules(m1, rules, 1, o)
    IN  IF m3.raised = NoExc THEN reload_func(m3, o) ELSE m3

update_alerts_rules(m, rules, src, o) ==
    LET m0 == [Call(m, "alerts_func") EXCEPT
                 !.sync_ran = TRUE, !.dest_at_sync = m.dest.exists,
                 !.stale_before = (m.dest.files \ (src.files \cup GeneratedFiles(rules)) # {})]
        m1 == rmtree(m0, o)
        m2 == IF m1.raised = NoExc THEN copytree(m1, src, o) ELSE m1
        m3 == WriteRules(m2, rules, 1, o)
    IN  IF m3.raised = NoExc THEN reload_func(m3, o) ELSE m3

_update_metrics_alerts(m, rules, o) == update_alerts_rules(m, rules, MetricsRulesSrc, o)

(***************************************************************************)
(* The handlers.  A statement runs only if none before it raised.          *)
(***************************************************************************)
EndPass(m) ==
    [m EXCEPT !.pass_status = m.status, !.pass_raised = m.raised,
              !.pass_calls = Len(m.calls)]

DesiredConfig ==
    _generate_config(Endpoints(remote_write_endpoints), Endpoints(loki_endpoints),
                     tls_insecure_skip_verify, scrape_jobs,
                     _additional_integrations, _additional_log_configs)

ConfigOutcomes ==
    {[write_file |-> w, restart |-> "ok"] : w \in WriteOutcomes}
    \cup {[write_file |-> "ok", restart |-> r] : r \in RestartOutcomes}

Outcomes ==
    {[write_file |-> c.write_file, restart |-> c.restart, sync |-> f] :
        c \in ConfigOutcomes, f \in SyncFaults(Len(alert_rules))}

\* The outcome o was met: every fault it names hit the call it names.
Met(m, o) ==
    /\ o.write_file # "ok" => Called(m.calls, "write_file") /\ ~m.write_ok
    /\ o.restart # "ok" => Called(m.calls, "restart")
    /\ o.sync.at \in {"rmtree", "copytree", "copytree partial", "write_text"} =>
          m.sync_ran /\ m.raised # NoExc /\ ~Called(m.calls, "reload_func")
    /\ o.sync.at = "rmtree" => ~Called(m.calls, "copytree") /\ m.raised = "OSError"
    /\ o.sync.at \in {"copytree", "copytree partial"} => m.raised = "shutil.Error"
    /\ o.sync.at = "write_text" => m.raised = "OSError"
    /\ o.sync.at = "reload_func" => Called(m.calls, "reload_func")

\* What the file at CONFIG_PATH holds when a handler starts.
Persisted(file, config) ==
    CASE ~file.exists -> "nothing"
      [] file.text.kind # "yaml" -> file.text.kind
      [] file.text.doc = config -> "desired"
      [] OTHER -> "other"

Dispatch(handler) ==
    [__init__(Begin(handler, config_file, metrics_rules_dest, unit_status)) EXCEPT
        !.persisted = Persisted(config_file, DesiredConfig),
        !.layout = config_file.text.layout,
        !.dest_missing = ~metrics_rules_dest.exists]

_on_config_changed(m, o) ==
    EndPass(_update_config(m, is_ready, DesiredConfig, o))

on_remote_write_changed(m, o) ==
    LET m1 == EndPass(_update_config(m, is_ready, DesiredConfig, o))
        m2 == IF m1.raised = NoExc
              THEN _update_status(m1, is_ready, Len(scrape_jobs), Len(remote_write_endpoints))
              ELSE m1
    IN  IF m2.raised = NoExc THEN _update_metrics_alerts(m2, alert_rules, o.sync) ELSE m2

on_scrape_targets_changed(m, o) ==
    LET m1 == EndPass(_update_config(m, is_ready, DesiredConfig, o))
        m2 == IF m1.raised = NoExc
              THEN _update_status(m1, is_ready, Len(scrape_jobs), Len(remote_write_endpoints))
              ELSE m1
    IN  IF m2.raised = NoExc THEN _update_metrics_alerts(m2, alert_rules, o.sync) ELSE m2

(***************************************************************************)
(* The host-installed variant (machine_charm.py).  It does not override    *)
(* _update_config, which takes no argument besides self: a call that       *)
(* passes one raises TypeError when the arguments are bound, before the    *)
(* body runs.  on_start makes such a call, _update_config(None).           *)
(* subprocess.run is called without check: it returns the exit code of     *)
(* the command.                                                            *)
(***************************************************************************)
ReturnCodes == {0, 1}

\* The call self._update_config(*args).
Bound_update_config(m, args, ready, config, o) ==
    IF Len(args) # 0 THEN Raise(m, "TypeError")
    ELSE _update_config(m, ready, config, o)

snap_start(m, returncode) ==
    [Call(m, "snap start") EXCEPT !.returncode = returncode]

on_start(m, returncode, o) ==
    LET m1 == EndPass(Bound_update_config(m, <<None>>, is_ready, DesiredConfig, o))
        m2 == [m1 EXCEPT !.status = MaintenanceStatus("Starting grafana-agent snap")]
        m3 == snap_start(m2, returncode)
    IN  IF m1.raised # NoExc THEN m1
        ELSE IF m3.returncode # 0 THEN Raise(m3, "GrafanaAgentServiceError")
        ELSE [m3 EXCEPT !.status = ActiveStatus]

(***************************************************************************)
(* prev: the reconciliation pass of the handler dispatched right before    *)
(* the last one, kept only while no input and no file changed in between.  *)
(***************************************************************************)
NoPrev == [valid |-> FALSE, returned |-> FALSE, active |-> FALSE,
           restart_failed_after_write |-> FALSE]

PassOf(l) ==
    IF l.handler = "none" THEN NoPrev
    ELSE [valid |-> TRUE,
          returned |-> (l.pass_raised = NoExc),
          active |-> (l.pass_raised = NoExc /\ l.pass_status = ActiveStatus),
          restart_failed_after_write |-> (l.write_ok /\ l.restart_exc # NoExc)]

Commit(m, o) ==
    /\ Met(m, o)
    /\ config_file' = m.file
    /\ metrics_rules_dest' = m.dest
    /\ unit_status' = m.status
    /\ last' = Summary(m)
    /\ prev' = PassOf(last)
    /\ UNCHANGED <<inputs, reload, synth, dash>>

ConfigChanged ==
    \E o \in Outcomes :
        /\ o.sync = NoFault
        /\ Commit(_on_config_changed(Dispatch("_on_config_changed"), o), o)

RemoteWriteChanged ==
    \E o \in Outcomes :
        Commit(on_remote_write_changed(Dispatch("on_remote_write_changed"), o), o)

ScrapeTargetsChanged ==
    \E o \in Outcomes :
        Commit(on_scrape_targets_changed(Dispatch("on_scrape_targets_changed"), o), o)

\* config = self._generate_config() in a charm of the given variant.
Generated(variant) ==
    IF HookRaises(variant) # NoExc THEN [exc |-> HookRaises(variant), val |-> None]
    ELSE [exc |-> NoExc, val |-> DesiredConfig]

\* _update_config as a charm of the given variant runs it.
_update_config_of(m, variant, ready, o) ==
    LET g == Generated(variant)
    IN  IF ready /\ g.exc # NoExc
        THEN Raise(Call(Call(m, "is_ready"), "_generate_config"), g.exc)
        ELSE _update_config(m, ready, g.val, o)

\* _on_config_changed, which the machine charm inherits.
machine_on_config_changed(m, o) ==
    EndPass(_update_config_of(m, "machine", is_ready, o))

\* restart of the machine charm runs the snap command and looks at nothing
\* it returns: it raises neither of the errors the pass catches.
MachineConfigChanged ==
    \E o \in Outcomes :
        /\ o.sync = NoFault /\ o.restart = "ok"
        /\ Commit(machine_on_config_changed(Dispatch("_on_config_changed"), o), o)

OnStart ==
    \E o \in Outcomes, returncode \in ReturnCodes :
        /\ o.sync = NoFault
        /\ Commit(on_start(Dispatch("on_start"), returncode, o), o)

(***************************************************************************)
(* The environment: what the collaborators report changes between two      *)
(* dispatches, and the config file is a file anyone on the host can touch. *)
(***************************************************************************)
Forget == last' = NoHandler /\ prev' = NoPrev

ReadinessChanges ==
    /\ is_ready' = ~is_ready
    /\ Forget
    /\ UNCHANGED <<tls_insecure_skip_verify, remote_write_endpoints, loki_endpoints,
                   scrape_jobs, alert_rules, config_file, metrics_rules_dest,
                   unit_status, reload, synth, dash>>

ConfigOptionChanges ==
    /\ tls_insecure_skip_verify' = ~tls_insecure_skip_verify
    /\ Forget
    /\ UNCHANGED <<is_ready, remote_write_endpoints, loki_endpoints,
                   scrape_jobs, alert_rules, config_file, metrics_rules_dest,
                   unit_status, reload, synth, dash>>

RemoteWriteEndpointsChange ==
    /\ remote_write_endpoints' \in RemoteWriteLists \ {remote_write_endpoints}
    /\ Forget
    /\ UNCHANGED <<is_ready, tls_insecure_skip_verify, loki_endpoints,
                   scrape_jobs, alert_rules, config_file, metrics_rules_dest,
                   unit_status, reload, synth, dash>>

ScrapeJobsChange ==
    /\ scrape_jobs' \in ScrapeJobLists \ {scrape_jobs}
    /\ Forget
    /\ UNCHANGED <<is_ready, tls_insecure_skip_verify, remote_write_endpoints,
                   loki_endpoints, alert_rules, config_file, metrics_rules_dest,
                   unit_status, reload, synth, dash>>

AlertRulesChange ==
    /\ alert_rules' \in AlertRuleSets \ {alert_rules}
    /\ Forget
    /\ UNCHANGED <<is_ready, tls_insecure_skip_verify, remote_write_endpoints,
                   loki_endpoints, scrape_jobs, config_file, metrics_rules_dest,
                   unit_status, reload, synth, dash>>

\* The file is rewritten in another layout (flow style, keys in another order,
\* other indentation): another text of the same document.
OtherLayout == "flow"

ConfigFileReformatted ==
    /\ config_file.exists /\ config_file.text.kind = "yaml"
    /\ config_file.text.layout # OtherLayout
    /\ config_file' = File([config_file.text EXCEPT !.layout = OtherLayout])
    /\ Forget
    /\ UNCHANGED <<inputs, metrics_rules_dest, unit_status, reload, synth, dash>>

ConfigFileTouched ==
    /\ config_file' \in {NoFile, File(EmptyText), File(GarbageText)} \ {config_file}
    /\ Forget
    /\ UNCHANGED <<inputs, metrics_rules_dest, unit_status, reload, synth, dash>>

(***************************************************************************)
(* _reload_config: one POST through a requests Session whose adapter       *)
(* retries with Retry(total=attempts, status_forcelist=errors).  The       *)
(* server is a script: its i-th answer is what the i-th request gets, a    *)
(* status or a refused connection.  Retry is built without                 *)
(* allowed_methods, so it retries on a status only the methods of its      *)
(* default set, which POST is not in; a refused connection is retried      *)
(* whatever the method.  Each retry takes one from total, and Retry is     *)
(* exhausted when total falls below zero.                                  *)
(***************************************************************************)
Status(n) == [kind |-> "status", status |-> n]
ConnectionRefused == [kind |-> "refused", status |-> 0]
Responses == {Status(200), Status(503), ConnectionRefused}

errors == (400..451) \cup (500..512)
DEFAULT_ALLOWED_METHODS == {"HEAD", "GET", "PUT", "DELETE", "OPTIONS", "TRACE"}

is_retry(method, status_code, status_forcelist) ==
    method \in DEFAULT_ALLOWED_METHODS /\ status_code \in status_forcelist

RECURSIVE urlopen(_, _, _, _)
urlopen(method, server, i, total) ==
    LET response == server[i]
    IN  IF response.kind = "refused" \/ is_retry(method, response.status, errors)
        THEN IF total - 1 < 0
             THEN [requests |-> i, exc |-> "MaxRetryError"]
             ELSE urlopen(method, server, i + 1, total - 1)
        ELSE [requests |-> i, exc |-> NoExc]

post(server, attempts) == urlopen("POST", server, 1, attempts)

ReloadIdle == [pc |-> "idle", attempts |-> 0, server |-> <<>>, requests |-> 0,
               exc |-> NoExc, cause |-> NoExc, message |-> ""]

ReloadInputs ==
    {[pc |-> "called", attempts |-> n, server |-> s, requests |-> 0,
      exc |-> NoExc, cause |-> NoExc, message |-> ""] :
        n \in 0..MaxAttempts,
        s \in {t \in SeqsUpTo(Responses, MaxAttempts + 1) : Len(t) = MaxAttempts + 1}}

\* A reload that lets the failure of the POST through as it is.
_reload_config_unwrapped(r) ==
    LET sent == post(r.server, r.attempts)
    IN  IF sent.exc = NoExc
        THEN [r EXCEPT !.pc = "returned", !.requests = sent.requests]
        ELSE [r EXCEPT !.pc = "raised", !.requests = sent.requests,
                       !.exc = sent.exc, !.cause = sent.exc, !.message = sent.exc]

\* r.cause is the exception the except clause caught, r.message the message
\* of the GrafanaAgentReloadError raised in its place.
_reload_config(r) ==
    LET sent == post(r.server, r.attempts)
    IN  IF sent.exc = NoExc
        THEN [r EXCEPT !.pc = "returned", !.requests = sent.requests]
        ELSE [r EXCEPT !.pc = "raised", !.requests = sent.requests,
                       !.exc = "GrafanaAgentReloadError", !.cause = sent.exc,
                       !.message = "could not reload configuration: " \o sent.exc]

ReloadConfig ==
    /\ reload.pc = "called"
    /\ reload' = _reload_config(reload)
    /\ unit_status' = MaintenanceStatus("reloading agent configuration")
    /\ UNCHANGED <<inputs, config_file, metrics_rules_dest, last, prev, synth, dash>>


(***************************************************************************)
(* _generate_config on its own: the endpoints of the two relations, the    *)
(* config option, the scrape jobs and what the two extension hooks of the  *)
(* deployment variant return are the inputs; the extension integrations    *)
(* may bring keys of their own or keys the built-in block has as well.     *)
(***************************************************************************)
AdditionalIntegrations ==
    {EmptyDict,
     [node_exporter |-> [enabled |-> TRUE]],
     [agent |-> [enabled |-> FALSE]],
     [prometheus_remote_write |->
        << [url |-> "http://ext/api/v1/write",
            tls_config |-> [insecure_skip_verify |-> FALSE]] >>],
     [agent |-> [enabled |-> FALSE], node_exporter |-> [enabled |-> TRUE]]}

AdditionalLogConfigs ==
    {<<>>,
     << [name |-> "log_file_scraper",
         positions |-> [filename |-> "/run/log-positions.yaml"]] >>}

SynthIdle ==
    [pc |-> "idle", prometheus_endpoints |-> <<>>, loki_endpoints |-> <<>>,
     tls |-> FALSE, jobs |-> <<>>, additional_integrations |-> EmptyDict,
     additional_log_configs |-> <<>>, config |-> None, flipped |-> FALSE,
     variant |-> "k8s", principal_unit |-> None, agent |-> None, exc |-> NoExc]

SynthInputs ==
    {[pc |-> "called", prometheus_endpoints |-> p, loki_endpoints |-> l,
      tls |-> t, jobs |-> j, additional_integrations |-> ai,
      additional_log_configs |-> al, config |-> None, flipped |-> FALSE,
      variant |-> "k8s", principal_unit |-> None, agent |-> None, exc |-> NoExc] :
        p \in Prefixes(RemoteWriteUrls, MaxSynthEndpoints),
        l \in Prefixes(LokiUrls, MaxSynthEndpoints),
        t \in BOOLEAN, j \in ScrapeJobLists,
        ai \in AdditionalIntegrations, al \in AdditionalLogConfigs}
    \cup
    {[pc |-> "called", prometheus_endpoints |-> p, loki_endpoints |-> l,
      tls |-> t, jobs |-> <<>>, additional_integrations |-> EmptyDict,
      additional_log_configs |-> <<>>, config |-> None, flipped |-> FALSE,
      variant |-> "machine", principal_unit |-> u, agent |-> None, exc |-> NoExc] :
        p \in Prefixes(RemoteWriteUrls, MaxSynthEndpoints),
        l \in Prefixes(LokiUrls, MaxSynthEndpoints),
        t \in BOOLEAN, u \in PrincipalUnits}

Synthesized(y) ==
    _generate_config(Endpoints(y.prometheus_endpoints), Endpoints(y.loki_endpoints), y.tls, y.jobs, y.additional_integrations, y.additional_log_configs)

\* The 'agent' entry of conf, which the dict display of _integrations_config
\* builds before it reads self._additional_integrations.
SelfMonitoring(y) ==
    _integrations_conf(InstanceName(y.variant, y.principal_unit), Endpoints(y.prometheus_endpoints), y.tls).agent

GenerateConfig ==
    /\ synth.pc = "called"
    /\ synth' = IF HookRaises(synth.variant) # NoExc
                THEN [synth EXCEPT !.pc = "raised", !.exc = HookRaises(synth.variant),
                                   !.agent = SelfMonitoring(synth)]
                ELSE [synth EXCEPT !.pc = "returned", !.config = Synthesized(synth),
                                   !.agent = SelfMonitoring(synth)]
    /\ UNCHANGED <<inputs, config_file, metrics_rules_dest, unit_status, last, prev, reload, dash>>

\* The operator sets the config option the other way and the config is
\* generated anew.
TlsOptionFlipped ==
    /\ synth.pc = "returned"
    /\ LET y == [synth EXCEPT !.tls = ~synth.tls, !.flipped = TRUE]
       IN  synth' = [y EXCEPT !.config = Synthesized(y)]
    /\ UNCHANGED <<inputs, config_file, metrics_rules_dest, unit_status, last, prev, reload, dash>>

(***************************************************************************)
(* _update_grafana_dashboards on its own.  The dashboards hook of the      *)
(* deployment variant is a property: the base class raises                 *)
(* NotImplementedError when it is read, a variant that overrides it        *)
(* returns the list of dashboards.  The arguments of the call of           *)
(* update_dashboards are evaluated before update_dashboards is entered.    *)
(* identifier is a one-element tuple (the assignment ends with a comma),   *)
(* and the file name is formatted from that tuple.                         *)
(***************************************************************************)
DashboardsSrc == Dir({<<"agent.json", yaml_dump([title |-> "Grafana Agent"])>>})

Dashboard(id) == [charm |-> "charm-" \o id, relation_id |-> id, content |-> [title |-> "board " \o id]]

DashboardIds == <<"1", "2", "3">>

DashboardFileName(dash_) ==
    "juju_('" \o dash_.charm \o "-" \o dash_.relation_id \o "',).rules"

RECURSIVE WriteDashboards(_, _, _, _)
WriteDashboards(m, dashboards_, i, o) ==
    IF i > Len(dashboards_) \/ m.raised # NoExc THEN m
    ELSE LET m1 == Call(m, "write_text")
             name == DashboardFileName(dashboards_[i])
             text == yaml_dump(dashboards_[i].content)
         IN  IF o.at = "write_text" /\ o.k = i THEN Raise(m1, "OSError")
             ELSE WriteDashboards([m1 EXCEPT !.dest.files = WriteText(@, name, text)],
                                  dashboards_, i + 1, o)

\* dashboards_func is the value the caller evaluated: the assignment in the
\* try block raises nothing.
update_dashboards(m, dashboards_func, src, o) ==
    LET m1 == rmtree(m, o)
        m2 == IF m1.raised = NoExc THEN copytree(m1, src, o) ELSE m1
        m3 == WriteDashboards(m2, dashboards_func, 1, o)
    IN  IF m3.raised = NoExc THEN reload_func(m3, o) ELSE m3

\* self.dashboards: the property of the base class, or the override.
dashboards(m, implemented, value) ==
    IF implemented THEN Call(m, "dashboards")
    ELSE Raise(Call(m, "dashboards"), "NotImplementedError")

_update_grafana_dashboards(m, implemented, value, o) ==
    LET m1 == dashboards(m, implemented, value)
    IN  IF m1.raised # NoExc THEN m1
        ELSE update_dashboards(m1, value, DashboardsSrc, o)

DashIdle ==
    [pc |-> "idle", implemented |-> FALSE, value |-> <<>>, fault |-> NoFault,
     before |-> NoDir, dest |-> NoDir, calls |-> <<>>, raised |-> NoExc]

DashboardLists ==
    {[i \in 1..Len(ids) |-> Dashboard(ids[i])] :
        ids \in SubSeqs(SubSeq(DashboardIds, 1, Min(MaxDashboards, Len(DashboardIds))))}

\* The destination as __init__ left it or as an earlier sync left it.
DashboardDests ==
    {DashboardsSrc} \cup
    {Dir(DashboardsSrc.files \cup
         {<<DashboardFileName(d[i]), yaml_dump(d[i].content)>> : i \in 1..Len(d)}) :
        d \in DashboardLists}

DashInputs ==
    {[pc |-> "called", implemented |-> b, value |-> v, fault |-> f,
      before |-> d, dest |-> d, calls |-> <<>>, raised |-> NoExc] :
        b \in BOOLEAN, v \in DashboardLists, d \in DashboardDests,
        f \in SyncFaults(MaxDashboards)}

UpdateGrafanaDashboards ==
    /\ dash.pc = "called"
    /\ LET m == _update_grafana_dashboards(
                    Begin("_update_grafana_dashboards", NoFile, dash.dest, unit_status),
                    dash.implemented, dash.value, dash.fault)
       IN  dash' = [dash EXCEPT !.pc = IF m.raised = NoExc THEN "returned" ELSE "raised",
                                !.dest = m.dest, !.calls = m.calls, !.raised = m.raised]
    /\ UNCHANGED <<inputs, config_file, metrics_rules_dest, unit_status, last, prev,
                   reload, synth>>

Init ==
    /\ is_ready = FALSE
    /\ tls_insecure_skip_verify = FALSE
    /\ remote_write_endpoints = <<>>
    /\ loki_endpoints = <<>>
    /\ scrape_jobs = <<>>
    /\ alert_rules = <<>>
    /\ config_file = NoFile
    /\ metrics_rules_dest = NoDir
    /\ unit_status = UnknownStatus
    /\ last = NoHandler
    /\ prev = NoPrev
    /\ reload = ReloadIdle
    /\ synth = SynthIdle
    /\ dash = DashIdle

Handlers ==
    \/ ConfigChanged
    \/ RemoteWriteChanged
    \/ ScrapeTargetsChanged

(***************************************************************************)
(* Spec: the handlers under every change of the inputs of the config.      *)
(* SpecRules: the handlers under every change of the alert rules.  The     *)
(* reconciliation pass does not read the alert rules and the rule sync     *)
(* does not read the inputs of the config.                                 *)
(***************************************************************************)
Next ==
    \/ Handlers
    \/ ReadinessChanges
    \/ ConfigOptionChanges
    \/ RemoteWriteEndpointsChange
    \/ ScrapeJobsChange
    \/ ConfigFileTouched
    \/ ConfigFileReformatted

Spec == Init /\ [][Next]_vars

NextRules ==
    \/ Handlers
    \/ ReadinessChanges
    \/ AlertRulesChange
    \/ ConfigFileTouched

SpecRules == Init /\ [][NextRules]_vars

(***************************************************************************)
(* SpecReload: _reload_config on its own, for every number of attempts and *)
(* every script of the server within the bounds.  No handler calls it (the *)
(* pass restarts the agent instead).                                       *)
(***************************************************************************)
InitReload ==
    /\ is_ready = FALSE
    /\ tls_insecure_skip_verify = FALSE
    /\ remote_write_endpoints = <<>>
    /\ loki_endpoints = <<>>
    /\ scrape_jobs = <<>>
    /\ alert_rules = <<>>
    /\ config_file = NoFile
    /\ metrics_rules_dest = NoDir
    /\ unit_status = UnknownStatus
    /\ last = NoHandler
    /\ prev = NoPrev
    /\ reload \in ReloadInputs
    /\ synth = SynthIdle
    /\ dash = DashIdle

NextReload == ReloadConfig

SpecReload == InitReload /\ [][NextReload]_vars

(***************************************************************************)
(* SpecSynth: _generate_config on its own, for every input within the      *)
(* bounds.                                                                 *)
(***************************************************************************)
InitSynth ==
    /\ is_ready = FALSE
    /\ tls_insecure_skip_verify = FALSE
    /\ remote_write_endpoints = <<>>
    /\ loki_endpoints = <<>>
    /\ scrape_jobs = <<>>
    /\ alert_rules = <<>>
    /\ config_file = NoFile
    /\ metrics_rules_dest = NoDir
    /\ unit_status = UnknownStatus
    /\ last = NoHandler
    /\ prev = NoPrev
    /\ reload = ReloadIdle
    /\ synth \in SynthInputs
    /\ dash = DashIdle

NextSynth ==
    \/ GenerateConfig
    \/ TlsOptionFlipped

SpecSynth == InitSynth /\ [][NextSynth]_vars

(***************************************************************************)
(* SpecDashboards: _update_grafana_dashboards on its own, for both kinds   *)
(* of deployment variant.                                                  *)
(***************************************************************************)
InitDashboards ==
    /\ is_ready = FALSE
    /\ tls_insecure_skip_verify = FALSE
    /\ remote_write_endpoints = <<>>
    /\ loki_endpoints = <<>>
    /\ scrape_jobs = <<>>
    /\ alert_rules = <<>>
    /\ config_file = NoFile
    /\ metrics_rules_dest = NoDir
    /\ unit_status = UnknownStatus
    /\ last = NoHandler
    /\ prev = NoPrev
    /\ reload = ReloadIdle
    /\ synth = SynthIdle
    /\ dash \in DashInputs

NextDashboards == UpdateGrafanaDashboards

SpecDashboards == InitDashboards /\ [][NextDashboards]_vars

(***************************************************************************)
(* SpecMachine: the start handler of the host-installed variant under the  *)
(* changes of the inputs of the config.                                    *)
(***************************************************************************)
NextMachine ==
    \/ OnStart
    \/ MachineConfigChanged
    \/ ReadinessChanges
    \/ ConfigOptionChanges
    \/ RemoteWriteEndpointsChange
    \/ ScrapeJobsChange
    \/ ConfigFileTouched

SpecMachine == Init /\ [][NextMachine]_vars

(***************************************************************************)
(* Properties.  last describes the handler that has just ended: the        *)
(* inputs and the files are still those it ran with.  Pass is the list of  *)
(* collaborator calls its reconciliation pass (_update_config) made.       *)
(***************************************************************************)
Handled == last.handler # "none"
Pass == SubSeq(last.calls, 1, last.pass_calls)
AfterPass == SubSeq(last.calls, last.pass_calls + 1, Len(last.calls))
NotFound == {"FileNotFoundError", "PathError"}
NotReadyStatus == WaitingStatus("waiting for agent to start")

\* C1: a pass with is_ready false synthesizes nothing, reads nothing, writes
\* nothing, restarts nothing, and ends Waiting 'waiting for agent to start'.
C1_ReadinessGating ==
    (Handled /\ ~is_ready) =>
        /\ Pass = <<"is_ready">>
        /\ \A c \in {"_generate_config", "read_file", "write_file", "restart"} :
              ~Called(Pass, c)
        /\ last.pass_raised = NoExc
        /\ last.pass_status = NotReadyStatus

C1_Witness ==
    /\ Handled /\ ~is_ready
    /\ last.handler = "on_remote_write_changed"
    /\ config_file.exists /\ config_file # File(yaml_dump(DesiredConfig))
    /\ last.pass_status = NotReadyStatus

\* C2: two passes in a row with is_ready true and unchanged inputs both end
\* Active, and the second neither writes nor restarts.
C2_Idempotence ==
    (Handled /\ prev.valid /\ is_ready) =>
        /\ prev.active
        /\ last.pass_raised = NoExc /\ last.pass_status = ActiveStatus
        /\ ~Called(Pass, "write_file") /\ ~Called(Pass, "restart")

\* The part of C2 that holds: when the first of two passes in a row with
\* is_ready true and unchanged inputs returns, the second ends Active and
\* neither writes nor restarts; the first ends Active unless its restart raised
\* an error the pass catches.
C2_IdempotenceAfterReturn ==
    (Handled /\ prev.valid /\ is_ready /\ prev.returned) =>
        /\ prev.active \/ prev.restart_failed_after_write
        /\ last.pass_raised = NoExc /\ last.pass_status = ActiveStatus
        /\ last.unchanged
        /\ ~Called(Pass, "write_file") /\ ~Called(Pass, "restart")

C2_IdempotenceAfterReturn_Witness ==
    /\ Handled /\ prev.valid /\ is_ready /\ prev.active
    /\ Len(remote_write_endpoints) > 0
    /\ last.unchanged /\ last.pass_status = ActiveStatus

\* C3: when read_file raises not-found in a ready pass, the error does not leave
\* the pass; the persisted config counts as absent, the desired config is
\* written to the config path and, once written, the restart is triggered; the
\* pass ends Active when neither of them fails.
C3_MissingPersistedConfig ==
    (Handled /\ last.read_exc \in NotFound) =>
        /\ last.old_is_none /\ ~last.unchanged
        /\ last.pass_raised \notin NotFound
        /\ Len(Pass) >= 4 /\ SubSeq(Pass, 1, 4) =
              <<"is_ready", "_generate_config", "read_file", "write_file">>
        /\ last.written_to = CONFIG_PATH
        /\ last.write_ok =>
              /\ config_file = File(yaml_dump(DesiredConfig))
              /\ Pass = <<"is_ready", "_generate_config", "read_file", "write_file",
                          "restart">>
        /\ (last.write_ok /\ last.restart_exc = NoExc) =>
              last.pass_raised = NoExc /\ last.pass_status = ActiveStatus

C3_Witness ==
    /\ Handled /\ last.read_exc = "FileNotFoundError"
    /\ last.write_ok /\ Called(Pass, "restart") /\ last.restart_exc = NoExc
    /\ config_file = File(yaml_dump(DesiredConfig))

\* C4: a persisted config that cannot be parsed is treated as an absent one: no
\* exception leaves the pass and the desired config is applied.
C4_UnparsableIsAbsent ==
    (Handled /\ last.read_exc = "YAMLError") =>
        /\ last.pass_raised = NoExc
        /\ last.old_is_none
        /\ Called(Pass, "write_file")

\* C5: in a ready pass with desired # persisted, a restart that raises
\* GrafanaAgentReloadError ends the pass Blocked with its message, one that
\* raises APIError ends it Waiting with its message, one that raises nothing
\* ends it Active.
C5_FailureMapping ==
    (Handled /\ is_ready /\ ~last.unchanged /\ Called(Pass, "restart")) =>
        /\ last.restart_exc = "GrafanaAgentReloadError" =>
              /\ last.pass_raised = NoExc
              /\ last.pass_status = BlockedStatus(ReloadErrorMessage)
        /\ last.restart_exc = "APIError" =>
              /\ last.pass_raised = NoExc
              /\ last.pass_status = WaitingStatus(APIErrorMessage)
        /\ last.restart_exc = NoExc =>
              /\ last.pass_raised = NoExc
              /\ last.pass_status = ActiveStatus

C5_Witness ==
    /\ Handled /\ is_ready /\ last.write_ok
    /\ last.restart_exc = "APIError"
    /\ last.pass_status = WaitingStatus(APIErrorMessage)

\* C6: when write_file succeeds and the restart then fails, the persisted config
\* stays the new desired config, and the next pass with unchanged inputs finds
\* desired = persisted and neither writes nor restarts.
C6_NoRollback ==
    /\ (Handled /\ last.write_ok /\ last.restart_exc # NoExc) =>
          config_file = File(yaml_dump(DesiredConfig))
    /\ (Handled /\ prev.valid /\ prev.restart_failed_after_write) =>
          /\ last.unchanged
          /\ ~Called(Pass, "write_file") /\ ~Called(Pass, "restart")

C6_Witness ==
    /\ Handled /\ prev.valid /\ prev.restart_failed_after_write
    /\ last.unchanged /\ last.pass_status = ActiveStatus

\* C7: no failure of a collaborator I/O call leaves a handler: the handler
\* returns with the unit status set to one of the visible labels.
C7_NoHandlerCrash ==
    Handled => last.raised = NoExc

\* C9: after update_alerts_rules completes, whatever the destination held, it
\* holds exactly the files of the source template plus one juju_<id>.rules per
\* rule group with that group's serialized content.
C9_RuleSyncContent ==
    (Handled /\ last.sync_ran /\ last.raised = NoExc) =>
        metrics_rules_dest = Dir(TemplateFiles \cup GeneratedFiles(alert_rules))

C9_Witness ==
    /\ Handled /\ last.sync_ran /\ last.raised = NoExc
    /\ last.stale_before
    /\ alert_rules = <<"A">>
    /\ metrics_rules_dest = Dir(TemplateFiles \cup GeneratedFiles(<<"A">>))

\* C10: every scrape-targets-changed or remote-write-changed trigger runs the
\* metrics rule sync, and a sync invokes reload_func once, after the directory
\* replacement and all rule file writes succeeded, and not at all otherwise.
C10_SyncUnconditionalAndOrdered ==
    (Handled /\ last.handler \in {"on_remote_write_changed", "on_scrape_targets_changed"}) =>
        /\ last.sync_ran
        /\ Count(AfterPass, "reload_func") <= 1
        /\ Called(AfterPass, "reload_func") <=>
              /\ Called(AfterPass, "rmtree") /\ Called(AfterPass, "copytree")
              /\ Count(AfterPass, "write_text") = Len(alert_rules)
              /\ last.raised \in {NoExc, "ModelError"}
        /\ Called(AfterPass, "reload_func") =>
              AfterPass[Len(AfterPass)] = "reload_func"

\* C8: _reload_config with attempts = N against a server that always answers
\* 503 issues exactly N POST requests and raises GrafanaAgentReloadError;
\* against one that answers 503, 503, 200 with N = 3 it issues 3 requests and
\* returns.
AlwaysAnswers(server, n) == \A i \in 1..Len(server) : server[i] = Status(n)

C8_ReloadRetryBound ==
    (reload.pc \in {"returned", "raised"} /\ reload.attempts >= 1) =>
        /\ AlwaysAnswers(reload.server, 503) =>
              /\ reload.requests = reload.attempts
              /\ reload.pc = "raised" /\ reload.exc = "GrafanaAgentReloadError"
        /\ (reload.attempts = 3
            /\ SubSeq(reload.server, 1, 3) = <<Status(503), Status(503), Status(200)>>) =>
              /\ reload.requests = 3
              /\ reload.pc = "returned"

\* The handlers that run _update_status after the pass.
StatusHandlers == {"on_remote_write_changed", "on_scrape_targets_changed"}

\* C11: for the scrape-targets-changed and remote-write-changed handlers, a
\* pass that ended NotReady, Blocked or Degraded leaves that label, with its
\* message, as the unit status at the end of the handler.
C11_PassLabelVisible ==
    (Handled /\ last.handler \in StatusHandlers /\ last.pass_raised = NoExc
        /\ last.pass_status # ActiveStatus) =>
        unit_status = last.pass_status

\* C17: _update_status leaves Waiting 'waiting for the agent to start' when
\* is_ready is false, Waiting 'no related Prometheus remote-write' when a
\* metrics-endpoint relation exists and no remote-write relation does, and
\* Active only otherwise.
C17_UpdateStatus ==
    (Handled /\ last.handler \in StatusHandlers /\ Called(AfterPass, "is_ready")) =>
        unit_status =
            IF ~is_ready THEN WaitingStatus("waiting for the agent to start")
            ELSE IF Len(scrape_jobs) > 0 /\ Len(remote_write_endpoints) = 0
            THEN WaitingStatus("no related Prometheus remote-write")
            ELSE ActiveStatus

(***************************************************************************)
(* Properties of the synthesized config.                                   *)
(***************************************************************************)
Synth == synth.pc = "returned"

\* The embedded endpoints are those of urls, in order, each with the flag.
Carry(embedded, urls, flag) ==
    /\ Len(embedded) = Len(urls)
    /\ \A i \in 1..Len(urls) :
          /\ embedded[i].url = urls[i]
          /\ embedded[i].tls_config.insecure_skip_verify = flag

\* C12: every remote-write and log-push endpoint passed in is embedded (in
\* metrics remote_write, in integrations prometheus_remote_write, in the logs
\* clients) with tls_config.insecure_skip_verify equal to the flag, also after
\* the flag has changed.  The integrations key is the built-in one unless the
\* extension supplies it (C15).
C12_TlsPropagation ==
    Synth =>
        /\ Carry(synth.config.metrics.configs[1].remote_write,
                 synth.prometheus_endpoints, synth.tls)
        /\ "prometheus_remote_write" \notin DOMAIN synth.additional_integrations =>
              Carry(synth.config.integrations.prometheus_remote_write,
                    synth.prometheus_endpoints, synth.tls)
        /\ Len(synth.loki_endpoints) > 0 =>
              Carry(synth.config.logs.configs[1].clients, synth.loki_endpoints, synth.tls)

C12_Witness ==
    /\ Synth /\ synth.flipped /\ synth.tls
    /\ Len(synth.prometheus_endpoints) = 2 /\ Len(synth.loki_endpoints) = 2
    /\ synth.config.metrics.configs[1].remote_write[2].tls_config.insecure_skip_verify
    /\ synth.config.logs.configs[1].clients[2].tls_config.insecure_skip_verify
    /\ synth.config.integrations.prometheus_remote_write[2].tls_config.insecure_skip_verify

\* The logs section when a log-push endpoint or an extension log config exists.
LogsWithConfigs ==
    /\ Len(synth.loki_endpoints) > 0 =>
          LET configs == synth.config.logs.configs
              block == configs[1]
          IN  /\ Len(configs) = 1 + Len(synth.additional_log_configs)
              /\ block.name = "push_api_server"
              /\ block.positions.filename = "/run/promtail-positions.yaml"
              /\ Len(block.scrape_configs) = 1
              /\ block.scrape_configs[1].loki_push_api.server.http_listen_port = 3500
              /\ block.scrape_configs[1].loki_push_api.server.grpc_listen_port = 3600
              /\ SubSeq(configs, 2, Len(configs)) = synth.additional_log_configs
    /\ (Len(synth.loki_endpoints) = 0 /\ Len(synth.additional_log_configs) > 0) =>
          synth.config.logs.configs = synth.additional_log_configs

NoLogs == Len(synth.loki_endpoints) = 0 /\ Len(synth.additional_log_configs) = 0

\* C14: with a log-push endpoint the logs section holds one push_api_server
\* block (ports 3500 and 3600, fixed positions file) followed by the extension
\* log configs; with extension log configs only it holds exactly those; with
\* neither the logs section is omitted from the document.
C14_LogsSection ==
    Synth =>
        /\ LogsWithConfigs
        /\ NoLogs => "logs" \notin DOMAIN synth.config

\* C14 as amended: with neither, the document has its logs key with the empty
\* mapping as value: the list of configs is omitted, not present as an empty
\* list.
C14_LogsSectionEmptyMapping ==
    Synth =>
        /\ LogsWithConfigs
        /\ NoLogs =>
              /\ "logs" \in DOMAIN synth.config
              /\ DOMAIN synth.config.logs = {}

C14_Witness ==
    /\ Synth /\ NoLogs
    /\ Len(synth.prometheus_endpoints) > 0
    /\ "logs" \in DOMAIN synth.config /\ synth.config.logs = EmptyDict

BuiltInKeys == {"agent", "prometheus_remote_write"}

\* C15: in the integrations block every key the extension supplies has the
\* extension's value, also a key the built-in block has as well ('agent',
\* 'prometheus_remote_write'); every other built-in key keeps its built-in
\* value.
C15_ExtensionPrecedence ==
    Synth =>
        LET ext == synth.additional_integrations
            got == synth.config.integrations
        IN  /\ DOMAIN got = BuiltInKeys \cup DOMAIN ext
            /\ \A k \in DOMAIN ext : got[k] = ext[k]
            /\ "agent" \notin DOMAIN ext =>
                  /\ got.agent.enabled = TRUE
                  /\ Len(got.agent.relabel_configs) = 7
            /\ "prometheus_remote_write" \notin DOMAIN ext =>
                  Carry(got.prometheus_remote_write, synth.prometheus_endpoints, synth.tls)

C15_Witness ==
    /\ Synth
    /\ synth.additional_integrations = [agent |-> [enabled |-> FALSE]]
    /\ synth.config.integrations.agent = [enabled |-> FALSE]
    /\ Len(synth.prometheus_endpoints) = 1
    /\ Len(synth.config.integrations.prometheus_remote_write) = 1

\* C13: when the persisted file is a serialization, in whatever layout, of a
\* document equal to the desired config, the pass ends Active without a write
\* and without a restart.
C13_EqualityInsensitivity ==
    (Handled /\ is_ready /\ last.persisted = "desired") =>
        /\ last.pass_raised = NoExc /\ last.pass_status = ActiveStatus
        /\ Pass = <<"is_ready", "_generate_config", "read_file">>
        /\ config_file.text.layout = last.layout

C13_Witness ==
    /\ Handled /\ is_ready /\ last.persisted = "desired" /\ last.layout = OtherLayout
    /\ Len(remote_write_endpoints) > 0
    /\ config_file = File([yaml_dump(DesiredConfig) EXCEPT !.layout = OtherLayout])
    /\ last.pass_status = ActiveStatus

\* C16: when the dashboards hook is not implemented, the dashboard sync
\* returns without raising, leaves the destination directory as it was and
\* does not invoke the reload trigger.
C16_DashboardsUnimplemented ==
    (dash.pc \in {"returned", "raised"} /\ ~dash.implemented) =>
        /\ dash.raised = NoExc
        /\ dash.dest = dash.before
        /\ ~Called(dash.calls, "reload_func")

\* C18: a pass invokes the restart at most once and only after its write_file
\* of the desired config has returned; a pass whose write_file fails or is not
\* called does not restart; a pass writes the config at most once.
C18_WriteThenRestart ==
    Handled =>
        /\ Count(Pass, "restart") <= 1
        /\ Count(Pass, "write_file") <= 1
        /\ Called(Pass, "restart") =>
              /\ last.write_ok /\ last.written_to = CONFIG_PATH
              /\ \E j \in 1..Len(Pass) : \E i \in (j + 1)..Len(Pass) :
                    Pass[j] = "write_file" /\ Pass[i] = "restart"
        /\ ~last.write_ok => ~Called(Pass, "restart")
        /\ ~Called(Pass, "write_file") => ~Called(Pass, "restart")

C18_Witness ==
    /\ Handled /\ is_ready /\ last.persisted = "other"
    /\ last.write_ok
    /\ Pass = <<"is_ready", "_generate_config", "read_file", "write_file", "restart">>
    /\ last.restart_exc = "GrafanaAgentReloadError"

Reloaded == reload.pc \in {"returned", "raised"}

\* The status of the answer is outside the retry set.
Accepted(response) == response.kind = "status" /\ response.status \notin errors

\* C19: _reload_config returns without raising on the first response whose
\* status is outside the retry set, sending nothing after it; a failure that
\* escapes the POST is raised as GrafanaAgentReloadError with a message that
\* embeds the failure's description; no other exception leaves it.
C19_ReloadOutcomes ==
    Reloaded =>
        /\ reload.requests \in 1..Len(reload.server)
        /\ Accepted(reload.server[reload.requests]) => reload.pc = "returned"
        /\ \A i \in 1..(reload.requests - 1) : ~Accepted(reload.server[i])
        /\ reload.exc \in {NoExc, "GrafanaAgentReloadError"}
        /\ reload.pc = "returned" <=> reload.exc = NoExc
        /\ reload.pc = "raised" =>
              /\ reload.exc = "GrafanaAgentReloadError"
              /\ reload.cause = "MaxRetryError"
              /\ reload.message = "could not reload configuration: " \o reload.cause
              /\ reload.server[reload.requests].kind = "refused"
        /\ (\A i \in 1..(reload.attempts + 1) : reload.server[i].kind = "refused") =>
              reload.pc = "raised"

C19_Witness ==
    /\ Reloaded /\ reload.attempts = 2
    /\ SubSeq(reload.server, 1, 3) = <<ConnectionRefused, ConnectionRefused, Status(200)>>
    /\ reload.pc = "returned" /\ reload.requests = 3

\* C20: on_start of the host-installed variant runs a full reconciliation pass
\* and then issues the start command; it ends Active when the command returns
\* 0 and raises GrafanaAgentServiceError when it returns non-zero.
C20_StartHandler ==
    (Handled /\ last.handler = "on_start") =>
        /\ Called(Pass, "is_ready")
        /\ last.pass_raised = NoExc
        /\ AfterPass = <<"snap start">>
        /\ last.returncode = 0 => last.raised = NoExc /\ unit_status = ActiveStatus
        /\ last.returncode # 0 => last.raised = "GrafanaAgentServiceError"

\* C22: whenever a pass returns having set the status Active, the persisted
\* config is a serialization of the desired config synthesized in that pass,
\* whatever passes, read failures and restart failures came before.
C22_ActiveMeansPersisted ==
    (Handled /\ is_ready /\ last.pass_raised = NoExc /\ last.pass_status = ActiveStatus) =>
        /\ config_file.exists
        /\ yaml_safe_load(config_file.text) = [exc |-> NoExc, val |-> DesiredConfig]

C22_Witness ==
    /\ Handled /\ is_ready /\ prev.valid /\ prev.restart_failed_after_write
    /\ last.pass_raised = NoExc /\ last.pass_status = ActiveStatus
    /\ Len(remote_write_endpoints) > 0 /\ tls_insecure_skip_verify
    /\ config_file = File(yaml_dump(DesiredConfig))

\* C24: at the start of every rule sync the destination directory exists and
\* the recursive delete does not fail for a missing directory: the constructor
\* that runs before each handler copies the source template into a
\* destination that is no directory, also one an earlier failed sync left
\* missing.
C24_DestExistsAtSync ==
    (Handled /\ last.sync_ran) =>
        /\ last.dest_at_sync
        /\ last.raised # "FileNotFoundError"
        /\ Called(AfterPass, "rmtree")
        /\ (last.raised = NoExc /\ last.dest_missing) =>
              metrics_rules_dest = Dir(TemplateFiles \cup GeneratedFiles(alert_rules))

C24_Witness ==
    /\ Handled /\ prev.valid /\ last.dest_missing
    /\ last.sync_ran /\ last.dest_at_sync /\ last.raised = NoExc
    /\ Len(alert_rules) > 0
    /\ metrics_rules_dest.exists

\* The replacement of the relabel config of the chain that sets label.
Replacement(chain, label) ==
    chain[CHOOSE i \in 1..Len(chain) : chain[i].target_label = label].replacement

\* C21: for both deployment variants the 'instance' replacement of the
\* self-monitoring block is the '_'-join of the values the same chain attaches
\* as juju_model, juju_model_uuid, juju_application and juju_unit, and it is
\* not the empty string.
C21_InstanceLabel ==
    (synth.pc \in {"returned", "raised"}) =>
        LET chain == synth.agent.relabel_configs
        IN  /\ Replacement(chain, "instance") =
                  Join("_", << Replacement(chain, "juju_model"),
                               Replacement(chain, "juju_model_uuid"),
                               Replacement(chain, "juju_application"),
                               Replacement(chain, "juju_unit") >>)
            /\ Replacement(chain, "instance") # ""

\* C23: in the host-installed variant a ready pass with desired # persisted
\* always ends with status Active, and no pass of _update_config ends Blocked
\* or Degraded.
C23_MachinePassActive ==
    (Handled /\ last.handler = "_on_config_changed") =>
        /\ (is_ready /\ last.persisted # "desired") =>
              /\ last.pass_raised = NoExc
              /\ last.pass_status = ActiveStatus
        /\ last.pass_status.name # "blocked"
        /\ last.pass_status # WaitingStatus(APIErrorMessage)

====
